---- MODULE Spec2Model ----
(***************************************************************************)
(* Vision Transformer (src/Vision_Transformer.ipynb): the model classes    *)
(* PatchEmbedding, Position_Encoding, MultiHeadSelfAttention,              *)
(* TransformerEncoder, VisionTransformer and the training loop.            *)
(*                                                                         *)
(* Tensors that are only moved (unfold / view / permute) are modelled      *)
(* exactly: a shape and the row-major sequence of their elements, the      *)
(* input image holding at every position that position's own flat index.   *)
(* Floating-point layers (Linear, softmax attention, GELU, LayerNorm,       *)
(* Dropout) are uninterpreted: a tensor they produce is the record of the   *)
(* layer, the parameter it reads and the tensors it was applied to.         *)
(***************************************************************************)
EXTENDS Integers, Sequences, FiniteSets, TLC

\* ------------------------------------------------------------------ bounds
MaxDim == 4        \* input height / width and configured img_size in 1..MaxDim
MaxPatch == 2      \* patch_size in 1..MaxPatch
MaxChannels == 2   \* channel counts in 1..MaxChannels
MaxBatch == 2      \* batch sizes in 1..MaxBatch
MaxLayers == 1     \* num_layers in 0..MaxLayers
MaxHeads == 2      \* num_heads in 1..MaxHeads
MaxEmbed == 3      \* embed_dim in 2..MaxEmbed
NumEpochs == 2     \* epochs of the training loop
NumBatches == 2    \* batches the loader yields per epoch

\* ------------------------------------------------------- dense tensor moves
RECURSIVE Prod(_)
Prod(s) == IF s = <<>> THEN 1 ELSE Head(s) * Prod(Tail(s))

\* row-major stride of dimension i (1-based) of a contiguous tensor
Stride(shape, i) == Prod(SubSeq(shape, i + 1, Len(shape)))

\* 0-based multi-index of the 0-based flat offset k
Unravel(k, shape) == [i \in 1..Len(shape) |-> (k \div Stride(shape, i)) % shape[i]]

RECURSIVE RavelFrom(_, _, _)
RavelFrom(idx, shape, i) ==
    IF i > Len(shape) THEN 0
    ELSE idx[i] * Stride(shape, i) + RavelFrom(idx, shape, i + 1)

\* 0-based flat offset of the 0-based multi-index idx
Ravel(idx, shape) == RavelFrom(idx, shape, 1)

\* torch.Tensor.size(): a tensor is [shape, data], data in logical row-major order
NumWindows(n, size, step) == (n - size) \div step + 1

\* torch.Tensor.unfold(dim, size, step), dim 0-based; defined when shape[dim] >= size
Unfold(t, dim, size, step) ==
    LET n == Len(t.shape)
        d == dim + 1
        newShape == [i \in 1..(n + 1) |->
                        IF i = n + 1 THEN size
                        ELSE IF i = d THEN NumWindows(t.shape[d], size, step)
                        ELSE t.shape[i]]
    IN [shape |-> newShape,
        data  |-> [k \in 1..Prod(newShape) |->
                     LET idx == Unravel(k - 1, newShape)
                         old == [i \in 1..n |->
                                   IF i = d THEN idx[d] * step + idx[n + 1]
                                   ELSE idx[i]]
                     IN t.data[Ravel(old, t.shape) + 1]]]

\* Permute with a fault: the permute is left out, the channel dimension stays in front
PermuteLeftOut(t, dims) == t

\* torch.Tensor.permute(*dims), dims 0-based: new dimension i is old dimension dims[i]
Permute(t, dims) ==
    LET n == Len(t.shape)
        newShape == [i \in 1..n |-> t.shape[dims[i] + 1]]
    IN [shape |-> newShape,
        data  |-> [k \in 1..Prod(newShape) |->
                     LET idx == Unravel(k - 1, newShape)
                         old == [j \in 1..n |->
                                   idx[CHOOSE i \in 1..n : dims[i] + 1 = j]]
                     IN t.data[Ravel(old, t.shape) + 1]]]

\* the sizes view() infers: one entry of `sizes` may be -1
ViewKnown(sizes) == Prod([i \in 1..Len(sizes) |-> IF sizes[i] = -1 THEN 1 ELSE sizes[i]])

ViewOk(t, sizes) ==
    LET known == ViewKnown(sizes)
    IN IF \E i \in 1..Len(sizes) : sizes[i] = -1
       THEN known > 0 /\ Prod(t.shape) % known = 0
       ELSE known = Prod(t.shape)

\* torch.Tensor.contiguous().view(*sizes): same elements in the same row-major order
View(t, sizes) ==
    LET known == ViewKnown(sizes)
    IN [shape |-> [i \in 1..Len(sizes) |->
                     IF sizes[i] = -1 THEN Prod(t.shape) \div known ELSE sizes[i]],
        data  |-> t.data]

\* the input image: every element is its own flat index b,ch,y,x
Image(shape) == [shape |-> shape, data |-> [k \in 1..Prod(shape) |-> k - 1]]

Pixel(shape, b, ch, y, x) == Ravel(<<b, ch, y, x>>, shape)

\* ------------------------------------------------------ uninterpreted layers
VARIABLE params    \* version of the parameter values (every optimizer.step() makes a new one)

CLS == -1          \* row label of the classification token; patch i has label i
NoTensor == [shape |-> <<>>, rows |-> <<>>, val |-> [op |-> "none"]]

\* a parameter tensor: the layer that owns it (0: the model itself), its name, and its
\* current values (the version the optimizer last wrote)
Param(layer, name) == [layer |-> layer, name |-> name, version |-> params]

\* nn.Linear(in_features, out_features) applied to the last dimension
LinearOk(in_features, t) == t.shape[Len(t.shape)] = in_features

Linear(param, out_features, t) ==
    [shape |-> [t.shape EXCEPT ![Len(t.shape)] = out_features],
     rows  |-> t.rows,
     val   |-> [op |-> "linear", param |-> param, in |-> t.val]]

\* Dropout with a fault: it masks in eval mode too
DropoutInEveryMode(name, t, training, mask) ==
    [t EXCEPT !.val = [op |-> "dropout", name |-> name, mask |-> mask, in |-> t.val]]

\* nn.Dropout(p): identity in eval mode, a random mask (and rescaling) in training
Dropout(name, t, training, mask) ==
    IF training
    THEN [t EXCEPT !.val = [op |-> "dropout", name |-> name, mask |-> mask, in |-> t.val]]
    ELSE t

LayerNorm(param, t) == [t EXCEPT !.val = [op |-> "layer_norm", param |-> param, in |-> t.val]]

Gelu(t) == [t EXCEPT !.val = [op |-> "gelu", in |-> t.val]]

\* a + b for tensors of one shape
Add(a, b) == [a EXCEPT !.val = [op |-> "add", a |-> a.val, b |-> b.val]]

\* --------------------------------------------------------- PatchEmbedding
PatchEmbedding_init(patch_size, in_channels, embed_dim) ==
    [patch_size  |-> patch_size,
     embed_dim   |-> embed_dim,
     in_features |-> in_channels * patch_size * patch_size]

Raise(err, trace) == [ok |-> FALSE, err |-> err, trace |-> trace, x |-> NoTensor]
Return(x, trace) == [ok |-> TRUE, err |-> "", trace |-> trace, x |-> x]

Did(op, shape) == [op |-> op, shape |-> shape]

\* PatchEmbedding.forward(x) for the input [id, shape]
PatchEmbedding_forward(self, input) ==
    LET batch_size  == input.shape[1]
        in_channels == input.shape[2]
        height      == input.shape[3]
        width       == input.shape[4]
        p           == self.patch_size
        n_patches   == (height \div p) * (width \div p)
        x0          == Image(input.shape)
    IN IF height < p THEN Raise("unfold", <<>>)
       ELSE LET u1 == Unfold(x0, 2, p, p)
                t1 == <<Did("unfold", u1.shape)>>
       IN IF width < p THEN Raise("unfold", t1)
       ELSE LET u2 == Unfold(u1, 3, p, p)
                t2 == Append(t1, Did("unfold", u2.shape))
                s1 == <<batch_size, in_channels, -1, p * p>>
       IN IF ~ViewOk(u2, s1) THEN Raise("view", t2)
       ELSE LET v1 == View(u2, s1)
                t3 == Append(t2, Did("view", v1.shape))
                pm == Permute(v1, <<0, 2, 1, 3>>)
                t4 == Append(t3, Did("permute", pm.shape))
                s2 == <<batch_size, n_patches, -1>>
       IN IF ~ViewOk(pm, s2) THEN Raise("view", t4)
       ELSE LET v2 == View(pm, s2)
                t5 == Append(t4, Did("view", v2.shape))
                flat == [shape |-> v2.shape,
                         rows  |-> [i \in 1..n_patches |-> i - 1],
                         val   |-> [op |-> "patches", img |-> input.id, data |-> v2.data]]
       IN IF ~LinearOk(self.in_features, flat) THEN Raise("projection", t5)
       ELSE LET y == Linear(Param(0, "patch_embedding.projection"), self.embed_dim, flat)
            IN Return(y, Append(t5, Did("projection", y.shape)))

\* ------------------------------------------------------- Position_Encoding
Position_Encoding_init(embed_dim, n_patches) ==
    [shape |-> <<1, n_patches + 1, embed_dim>>]

\* torch broadcasting of two shapes of one rank: sizes equal, or one of them 1
Broadcastable(s, t) ==
    /\ Len(s) = Len(t)
    /\ \A i \in 1..Len(s) : s[i] = t[i] \/ s[i] = 1 \/ t[i] = 1

BroadcastShape(s, t) == [i \in 1..Len(s) |-> IF s[i] = 1 THEN t[i] ELSE s[i]]

\* Position_Encoding.forward(x): x + self.position_encoding
Position_Encoding_forward(self, x) ==
    IF ~Broadcastable(x.shape, self.shape) THEN Raise("position_encoding", <<>>)
    ELSE LET shape == BroadcastShape(x.shape, self.shape)
             y == [shape |-> shape,
                   rows  |-> [i \in 1..shape[2] |-> x.rows[IF x.shape[2] = 1 THEN 1 ELSE i]],
                   val   |-> [op |-> "add", a |-> x.val,
                              b |-> [op |-> "param",
                                     param |-> Param(0, "position_encoding"),
                                     shape |-> self.shape]]]
         IN Return(y, <<Did("position_encoding", shape)>>)

\* -------------------------------------------------- MultiHeadSelfAttention
\* MultiHeadSelfAttention.__init__: the assert, then the four projections
MultiHeadSelfAttention_init(embed_dim, num_heads) ==
    IF embed_dim % num_heads # 0
    THEN [ok |-> FALSE, err |-> "assert embed_dim % num_heads == 0"]
    ELSE [ok |-> TRUE, err |-> "",
          num_heads |-> num_heads, embed_dim |-> embed_dim,
          head_dim  |-> embed_dim \div num_heads]

\* the projection each of Q, K, V is computed with in forward
QProjection == "query"
KProjection == "query"
VProjection == "query"

\* MultiHeadSelfAttention.forward(x) of encoder layer `layer`
MultiHeadSelfAttention_forward(self, layer, x) ==
    LET batch_size == x.shape[1]
        n_patches  == x.shape[2]
        embed_dim  == x.shape[3]
        Q == Linear(Param(layer, QProjection), self.embed_dim, x)
        K == Linear(Param(layer, KProjection), self.embed_dim, x)
        V == Linear(Param(layer, VProjection), self.embed_dim, x)
        heads == <<batch_size, self.num_heads, n_patches, self.head_dim>>
        scores == <<batch_size, self.num_heads, n_patches, n_patches>>
        att == [shape |-> <<batch_size, n_patches, embed_dim>>,
                rows  |-> x.rows,
                val   |-> [op |-> "attention",
                           Q |-> Q.val, K |-> K.val, V |-> V.val,
                           heads |-> heads, scores |-> scores]]
    IN Linear(Param(layer, "out"), self.embed_dim, att)

\* ------------------------------------------------------ TransformerEncoder
\* TransformerEncoder.__init__: fails when its attention module's assert fails
TransformerEncoder_init(embed_dim, num_heads, mlp_dim) ==
    LET self_attn == MultiHeadSelfAttention_init(embed_dim, num_heads)
    IN IF ~self_attn.ok THEN [ok |-> FALSE, err |-> self_attn.err]
       ELSE [ok |-> TRUE, err |-> "", self_attn |-> self_attn,
             embed_dim |-> embed_dim, mlp_dim |-> mlp_dim]

\* attn_out = self.self_attn(x)
Encoder_attn(self, layer, x) == MultiHeadSelfAttention_forward(self.self_attn, layer, x)

\* x = x + self.dropout1(attn_out)
Encoder_residual1(x, attn_out, training, mask) ==
    Add(x, Dropout("dropout1", attn_out, training, mask))

\* x = self.norm1(x)
Encoder_norm1(layer, x) == LayerNorm(Param(layer, "norm1"), x)

\* ff_out = self.linear2(self.dropout(F.gelu(self.linear1(x))))
Encoder_ff(self, layer, x, training, mask) ==
    Linear(Param(layer, "linear2"), self.embed_dim,
           Dropout("dropout",
                   Gelu(Linear(Param(layer, "linear1"), self.mlp_dim, x)),
                   training, mask))

\* Encoder_residual2 with a fault: the residual connection is lost
Encoder_residual2_NoSkip(x, ff_out, training, mask) ==
    Dropout("dropout2", ff_out, training, mask)

\* x = x + self.dropout2(ff_out)
Encoder_residual2(x, ff_out, training, mask) ==
    Add(x, Dropout("dropout2", ff_out, training, mask))

\* x = self.norm2(x)
Encoder_norm2(layer, x) == LayerNorm(Param(layer, "norm2"), x)

\* ------------------------------------------------------- VisionTransformer
NoModel == [ok |-> FALSE, err |-> ""]

\* VisionTransformer.__init__(img_size, in_channels, patch_size, embed_dim, mlp_dim,
\* num_heads, num_layers, num_classes)
VisionTransformer_init(cfg) ==
    LET n_patches == (cfg.img_size \div cfg.patch_size) * (cfg.img_size \div cfg.patch_size)
        encoders  == [i \in 1..cfg.num_layers |->
                        TransformerEncoder_init(cfg.embed_dim, cfg.num_heads, cfg.mlp_dim)]
    IN IF \E i \in 1..cfg.num_layers : ~encoders[i].ok
       THEN [ok |-> FALSE, err |-> encoders[1].err]
       ELSE [ok |-> TRUE, err |-> "",
             cfg |-> cfg,
             patch_size |-> cfg.patch_size,
             n_patches |-> n_patches,
             patch_embedding |-> PatchEmbedding_init(cfg.patch_size, cfg.in_channels,
                                                     cfg.embed_dim),
             position_encoding |-> Position_Encoding_init(cfg.embed_dim, n_patches),
             transformer_encoders |-> encoders,
             num_classes |-> cfg.num_classes]

\* cls_tokens = self.classification_token.expand(batch_size, -1, -1)
\* x = torch.cat((cls_tokens, x), dim=1)
ClsConcat(x) ==
    LET batch_size == x.shape[1]
        cls_tokens == [shape |-> <<batch_size, 1, x.shape[3]>>,
                       rows  |-> <<CLS>>,
                       val   |-> [op |-> "expand",
                                  param |-> Param(0, "classification_token")]]
    IN [shape |-> <<batch_size, cls_tokens.shape[2] + x.shape[2], x.shape[3]>>,
        rows  |-> cls_tokens.rows \o x.rows,
        val   |-> [op |-> "cat", first |-> cls_tokens.val, second |-> x.val]]

\* cls_token_out = x[:, 0]
SelectFirst(x) ==
    [shape |-> <<x.shape[1], x.shape[3]>>,
     rows  |-> <<x.rows[1]>>,
     val   |-> [op |-> "select", index |-> 0, row |-> x.rows[1], in |-> x.val]]

\* --------------------------------------------------------------- the state
VARIABLES
    pc,         \* the calling script: "start", "ready", "failed", or a line of the training loop
    model,      \* the VisionTransformer object, NoModel before / without construction
    training,   \* nn.Module.training of the model and all its sub-modules
    grads,      \* .grad of the parameters: "none", "zero" or "ready"
    epoch,      \* epochs of the training loop started
    batch,      \* batches of the current epoch taken from the loader
    inp,        \* argument of the forward call: [id, shape]
    fpc,        \* position in VisionTransformer.forward: "idle", a step, "returned", "error"
    layer,      \* encoder layers completed in this call
    x,          \* the local x
    attn_out,   \* the local attn_out of TransformerEncoder.forward
    ff_out,     \* the local ff_out of TransformerEncoder.forward
    trace,      \* the operations this call has completed, with their result shapes
    err,        \* the operation that raised, "" when none did
    out,        \* the value the call returned
    outputs     \* what the caller kept of an earlier call: [inp, params, training, out]

vars == <<pc, model, training, params, grads, epoch, batch, inp, fpc, layer, x,
          attn_out, ff_out, trace, err, out, outputs>>

script == <<pc, model, training, params, grads, epoch, batch, outputs>>
call   == <<inp, fpc, layer, x, attn_out, ff_out, trace, err, out>>

NoInput == [id |-> 0, shape |-> <<>>]
NoOutputs == [inp |-> NoInput, params |-> 0, training |-> FALSE, out |-> NoTensor]

Init ==
    /\ pc = "start"
    /\ model = NoModel
    /\ training = FALSE
    /\ params = 0
    /\ grads = "none"
    /\ epoch = 0
    /\ batch = 0
    /\ inp = NoInput
    /\ fpc = "idle"
    /\ layer = 0
    /\ x = NoTensor
    /\ attn_out = NoTensor
    /\ ff_out = NoTensor
    /\ trace = <<>>
    /\ err = ""
    /\ out = NoTensor
    /\ outputs = NoOutputs

\* ------------------------------------------------------------ input domains
Configs ==
    [img_size : 1..MaxDim, in_channels : 1..MaxChannels, patch_size : 1..MaxPatch,
     embed_dim : 2..MaxEmbed, mlp_dim : {4}, num_heads : 1..MaxHeads,
     num_layers : 0..MaxLayers, num_classes : {3}]

Shapes == {<<b, c, h, w>> : b \in 1..MaxBatch, c \in 1..MaxChannels,
                            h \in 1..MaxDim, w \in 1..MaxDim}

Inputs == [id : {1}, shape : Shapes]

\* the outcomes of one random mask draw of nn.Dropout
DropoutMasks == {1, 2}

Running == fpc \notin {"idle", "returned", "error"}

\* ----------------------------------------------------------------- actions
\* model = VisionTransformer(...): the object, or the exception of __init__
Construct(cfgs) ==
    /\ pc = "start"
    /\ \E cfg \in cfgs :
         LET m == VisionTransformer_init(cfg)
         IN /\ model' = m
            /\ pc' = IF m.ok THEN "ready" ELSE "failed"
            /\ training' = m.ok
    /\ UNCHANGED <<params, grads, epoch, batch, outputs>>
    /\ UNCHANGED call

\* the frame of a new call of model(images)
Enter(input) ==
    /\ inp' = input
    /\ fpc' = "patch_embedding"
    /\ layer' = 0
    /\ x' = NoTensor
    /\ attn_out' = NoTensor
    /\ ff_out' = NoTensor
    /\ trace' = <<>>
    /\ err' = ""
    /\ out' = NoTensor

\* model(x) called by the script that holds the model
Call(inputs) ==
    /\ pc = "ready"
    /\ ~Running
    /\ \E input \in inputs : Enter(input)
    /\ UNCHANGED script

Fail(e, t) ==
    /\ fpc' = "error"
    /\ err' = e
    /\ trace' = trace \o t
    /\ x' = NoTensor
    /\ UNCHANGED <<inp, layer, attn_out, ff_out, out>>

\* where forward goes once `done` encoder layers have run
AfterLayers(done) ==
    IF done < Len(model.transformer_encoders) THEN "self_attn" ELSE "cls_token_out"

\* x = self.patch_embedding(x)
StepPatchEmbedding ==
    /\ fpc = "patch_embedding"
    /\ LET r == PatchEmbedding_forward(model.patch_embedding, inp)
       IN IF r.ok
          THEN /\ x' = r.x
               /\ trace' = trace \o r.trace
               /\ fpc' = "cat"
               /\ UNCHANGED <<inp, layer, attn_out, ff_out, err, out>>
          ELSE Fail(r.err, r.trace)
    /\ UNCHANGED script

\* batch_size = x.size(0); cls_tokens = ...expand(...); x = torch.cat((cls_tokens, x), dim=1)
StepClsConcat ==
    /\ fpc = "cat"
    /\ x' = ClsConcat(x)
    /\ trace' = Append(trace, Did("cat", x'.shape))
    /\ fpc' = "position_encoding"
    /\ UNCHANGED <<inp, layer, attn_out, ff_out, err, out>>
    /\ UNCHANGED script

\* x = self.position_encoding(x)
StepPositionEncoding ==
    /\ fpc = "position_encoding"
    /\ LET r == Position_Encoding_forward(model.position_encoding, x)
       IN IF r.ok
          THEN /\ x' = r.x
               /\ trace' = trace \o r.trace
               /\ fpc' = AfterLayers(0)
               /\ UNCHANGED <<inp, layer, attn_out, ff_out, err, out>>
          ELSE Fail(r.err, r.trace)
    /\ UNCHANGED script

Encoder == model.transformer_encoders[layer + 1]

\* TransformerEncoder.forward: attn_out = self.self_attn(x)
StepSelfAttention ==
    /\ fpc = "self_attn"
    /\ attn_out' = Encoder_attn(Encoder, layer + 1, x)
    /\ trace' = Append(trace, Did("self_attn", attn_out'.shape))
    /\ fpc' = "residual1"
    /\ UNCHANGED <<inp, layer, x, ff_out, err, out>>
    /\ UNCHANGED script

\* TransformerEncoder.forward: x = x + self.dropout1(attn_out)
StepResidual1 ==
    /\ fpc = "residual1"
    /\ \E mask \in DropoutMasks : x' = Encoder_residual1(x, attn_out, training, mask)
    /\ trace' = Append(trace, Did("residual1", x'.shape))
    /\ fpc' = "norm1"
    /\ UNCHANGED <<inp, layer, attn_out, ff_out, err, out>>
    /\ UNCHANGED script

\* StepNorm1 with a fault: a normalization that updates running statistics kept as
\* parameters
StepNorm1WithRunningStats ==
    /\ fpc = "norm1"
    /\ x' = Encoder_norm1(layer + 1, x)
    /\ trace' = Append(trace, Did("norm1", x'.shape))
    /\ fpc' = "feed_forward"
    /\ params' = params + 1
    /\ UNCHANGED <<inp, layer, attn_out, ff_out, err, out>>
    /\ UNCHANGED <<pc, model, training, grads, epoch, batch, outputs>>

\* TransformerEncoder.forward: x = self.norm1(x)
StepNorm1 ==
    /\ fpc = "norm1"
    /\ x' = Encoder_norm1(layer + 1, x)
    /\ trace' = Append(trace, Did("norm1", x'.shape))
    /\ fpc' = "feed_forward"
    /\ UNCHANGED <<inp, layer, attn_out, ff_out, err, out>>
    /\ UNCHANGED script

\* TransformerEncoder.forward: ff_out = self.linear2(self.dropout(F.gelu(self.linear1(x))))
StepFeedForward ==
    /\ fpc = "feed_forward"
    /\ \E mask \in DropoutMasks : ff_out' = Encoder_ff(Encoder, layer + 1, x, training, mask)
    /\ trace' = Append(trace, Did("feed_forward", ff_out'.shape))
    /\ fpc' = "residual2"
    /\ UNCHANGED <<inp, layer, x, attn_out, err, out>>
    /\ UNCHANGED script

\* TransformerEncoder.forward: x = x + self.dropout2(ff_out)
StepResidual2 ==
    /\ fpc = "residual2"
    /\ \E mask \in DropoutMasks : x' = Encoder_residual2(x, ff_out, training, mask)
    /\ trace' = Append(trace, Did("residual2", x'.shape))
    /\ fpc' = "norm2"
    /\ UNCHANGED <<inp, layer, attn_out, ff_out, err, out>>
    /\ UNCHANGED script

\* TransformerEncoder.forward: x = self.norm2(x); return x -- and the next layer of the loop
StepNorm2 ==
    /\ fpc = "norm2"
    /\ x' = Encoder_norm2(layer + 1, x)
    /\ trace' = Append(trace, Did("norm2", x'.shape))
    /\ layer' = layer + 1
    /\ fpc' = AfterLayers(layer + 1)
    /\ attn_out' = NoTensor
    /\ ff_out' = NoTensor
    /\ UNCHANGED <<inp, err, out>>
    /\ UNCHANGED script

\* cls_token_out = x[:, 0]
StepClsTokenOut ==
    /\ fpc = "cls_token_out"
    /\ x' = SelectFirst(x)
    /\ trace' = Append(trace, Did("cls_token_out", x'.shape))
    /\ fpc' = "classifier"
    /\ UNCHANGED <<inp, layer, attn_out, ff_out, err, out>>
    /\ UNCHANGED script

\* out = self.classifier(cls_token_out); return out
StepClassifier ==
    /\ fpc = "classifier"
    /\ out' = Linear(Param(0, "classifier"), model.num_classes, x)
    /\ trace' = Append(trace, Did("classifier", out'.shape))
    /\ fpc' = "returned"
    /\ x' = NoTensor
    /\ UNCHANGED <<inp, layer, attn_out, ff_out, err>>
    /\ UNCHANGED script

Forward ==
    \/ StepPatchEmbedding
    \/ StepClsConcat
    \/ StepPositionEncoding
    \/ StepSelfAttention
    \/ StepResidual1
    \/ StepNorm1
    \/ StepFeedForward
    \/ StepResidual2
    \/ StepNorm2
    \/ StepClsTokenOut
    \/ StepClassifier

\* a script that constructs a model and calls it on arbitrary 4-D inputs
Next ==
    \/ Construct(Configs)
    \/ Call(Inputs)
    \/ Forward

Spec == Init /\ [][Next]_vars

\* --------------------------------------------------- mode switches, keeping
\* the script moves past a finished call: its frame is gone
Leave ==
    /\ inp' = NoInput
    /\ fpc' = "idle"
    /\ layer' = 0
    /\ x' = NoTensor
    /\ attn_out' = NoTensor
    /\ ff_out' = NoTensor
    /\ trace' = <<>>
    /\ err' = ""
    /\ out' = NoTensor

\* model.eval(): nn.Module.train(False) on the model and every sub-module
Eval ==
    /\ pc = "ready"
    /\ ~Running
    /\ training' = FALSE
    /\ Leave
    /\ UNCHANGED <<pc, model, params, grads, epoch, batch, outputs>>

\* model.train() outside the training loop
Train ==
    /\ pc = "ready"
    /\ ~Running
    /\ training' = TRUE
    /\ Leave
    /\ UNCHANGED <<pc, model, params, grads, epoch, batch, outputs>>

\* what `outputs = model(images)` binds, with the conditions of the call
Kept == [inp |-> inp, params |-> params, training |-> training, out |-> out]

\* outputs = model(x) of a script outside the training loop
KeepOutputs ==
    /\ pc = "ready"
    /\ fpc = "returned"
    /\ outputs' = Kept
    /\ Leave
    /\ UNCHANGED <<pc, model, training, params, grads, epoch, batch>>

\* ------------------------------------------------------- the training loop
\* what the DataLoader yields: Resize((img_size, img_size)) images of the model's channels
LoaderImages ==
    [id : {1, 2},
     shape : {<<b, model.cfg.in_channels, model.cfg.img_size, model.cfg.img_size>> :
                 b \in {1, 2}}]

\* for epoch in range(...): model.train()
LoopTrain ==
    /\ pc = "ready"
    /\ ~Running
    /\ epoch < NumEpochs
    /\ epoch' = epoch + 1
    /\ batch' = 0
    /\ training' = TRUE
    /\ pc' = "loader"
    /\ Leave
    /\ UNCHANGED <<model, params, grads, outputs>>

\* for images, labels in train_loader: images.to(device); optimizer.zero_grad();
\* and the call model(images) is entered
LoopBatch ==
    /\ pc = "loader"
    /\ batch < NumBatches
    /\ batch' = batch + 1
    /\ grads' = "zero"
    /\ \E images \in LoaderImages : Enter(images)
    /\ pc' = "forward"
    /\ UNCHANGED <<model, training, params, epoch, outputs>>

\* outputs = <the value model(images) returned>; loss = criterion(outputs, labels)
LoopLoss ==
    /\ pc = "forward"
    /\ fpc = "returned"
    /\ outputs' = Kept
    /\ Leave
    /\ pc' = "backward"
    /\ UNCHANGED <<model, training, params, grads, epoch, batch>>

\* loss.backward()
LoopBackward ==
    /\ pc = "backward"
    /\ grads' = "ready"
    /\ pc' = "step"
    /\ UNCHANGED <<model, training, params, epoch, batch, outputs>>
    /\ UNCHANGED call

\* optimizer.step()
LoopStep ==
    /\ pc = "step"
    /\ params' = params + 1
    /\ pc' = "loader"
    /\ UNCHANGED <<model, training, grads, epoch, batch, outputs>>
    /\ UNCHANGED call

\* the loader is exhausted: print(...) and the next epoch, if any
LoopEpochEnd ==
    /\ pc = "loader"
    /\ batch = NumBatches
    /\ pc' = "ready"
    /\ UNCHANGED <<model, training, params, grads, epoch, batch, outputs>>
    /\ UNCHANGED call

\* ---------------------------------------------------------- specifications
\* configurations of the patch embedding alone (no encoder layer)
PatchConfigs ==
    {cfg \in Configs : cfg.img_size = MaxDim /\ cfg.embed_dim = 2 /\ cfg.num_heads = 1
                       /\ cfg.num_layers = 0}

NextPatch ==
    \/ Construct(PatchConfigs)
    \/ Call(Inputs)
    \/ StepPatchEmbedding

SpecPatch == Init /\ [][NextPatch]_vars

\* small constructible models, called in both modes on images of their own size
ModeConfigs ==
    {cfg \in Configs : cfg.img_size = 2 /\ cfg.in_channels = 1 /\ cfg.patch_size = 2
                       /\ cfg.embed_dim = 2 /\ cfg.num_heads = 1}

ModeInputs == [id : {1, 2}, shape : {<<1, 1, 2, 2>>}]

NextModes ==
    \/ Construct(ModeConfigs)
    \/ Eval
    \/ Train
    \/ Call(ModeInputs)
    \/ Forward
    \/ KeepOutputs

SpecModes == Init /\ [][NextModes]_vars

\* a script that trains for some epochs and calls the model itself, in either mode,
\* before, between and after the epochs
DetConfigs == {cfg \in ModeConfigs : cfg.num_layers <= 1}

NextDet ==
    \/ Construct(DetConfigs)
    \/ Eval
    \/ Train
    \/ Call(ModeInputs)
    \/ Forward
    \/ KeepOutputs
    \/ LoopTrain
    \/ LoopBatch
    \/ LoopLoss
    \/ LoopBackward
    \/ LoopStep
    \/ LoopEpochEnd

SpecDet == Init /\ [][NextDet]_vars

\* small constructible models of at most one encoder layer
TrainConfigs ==
    {cfg \in Configs : cfg.img_size = 2 /\ cfg.in_channels = 1 /\ cfg.embed_dim = 2
                       /\ cfg.num_heads = 1 /\ cfg.num_layers <= 1}

NextTrain ==
    \/ Construct(TrainConfigs)
    \/ LoopTrain
    \/ LoopBatch
    \/ Forward
    \/ LoopLoss
    \/ LoopBackward
    \/ LoopStep
    \/ LoopEpochEnd

SpecTrain == Init /\ [][NextTrain]_vars

\* ------------------------------------------------------------------ claims
InB == inp.shape[1]
InC == inp.shape[2]
InH == inp.shape[3]
InW == inp.shape[4]
PatchSize == model.patch_size
EncoderSteps == {"self_attn", "residual1", "norm1", "feed_forward", "residual2", "norm2"}

\* C1: for an input whose height and width are multiples of patch_size,
\* PatchEmbedding.forward yields (H/p)*(W/p) tokens per batch element in row-major
\* patch order: entry ch*p*p + dy*p + dx of the vector projected at token r*(W/p) + c
\* is the pixel x[b, ch, r*p + dy, c*p + dx], and the vector has exactly
\* in_channels*p*p entries (so it holds no value of another patch).
C1_RowMajorPatches ==
    (fpc = "cat" /\ InH % PatchSize = 0 /\ InW % PatchSize = 0) =>
        LET p  == PatchSize
            gh == InH \div p
            gw == InW \div p
            n  == gh * gw
            F  == InC * p * p
            d  == x.val.in.data
        IN /\ x.shape = <<InB, n, model.cfg.embed_dim>>
           /\ x.val.op = "linear"
           /\ x.val.in.op = "patches"
           /\ Len(d) = InB * n * F
           /\ \A b \in 0..(InB - 1), r \in 0..(gh - 1), c \in 0..(gw - 1),
                 ch \in 0..(InC - 1), dy \in 0..(p - 1), dx \in 0..(p - 1) :
                 d[(b * n + (r * gw + c)) * F + (ch * p * p + dy * p + dx) + 1]
                     = ((b * InC + ch) * InH + (r * p + dy)) * InW + (c * p + dx)

\* a 2x2 grid of 2x2 patches of a two-channel image, in a batch of two
C1_Witness ==
    /\ fpc = "cat"
    /\ inp.shape = <<2, 2, 4, 4>>
    /\ PatchSize = 2
    /\ x.shape[2] = 4

\* C2: Q, K and V are computed by three different projections: Q by query, K by key,
\* V by value.
C2_IndependentProjections ==
    fpc = "residual1" =>
        LET a == attn_out.val.in
        IN /\ a.op = "attention"
           /\ a.Q.param.name = "query"
           /\ a.K.param.name = "key"
           /\ a.V.param.name = "value"

\* C3: in a call that returns, the sequence given to the encoder stack and to each
\* of its blocks has exactly 1 + (H/patch_size)*(W/patch_size) tokens, the class
\* token first and the patch tokens after it in patch order, and the classifier
\* reads index 0 of the final sequence.
C3_SequenceLength ==
    /\ (fpc \in EncoderSteps \cup {"cls_token_out"}) =>
          /\ (x.shape[2] - 1) * PatchSize * PatchSize = InH * InW
          /\ x.rows = [i \in 1..x.shape[2] |-> i - 2]
    /\ fpc = "returned" =>
          /\ out.val.in.op = "select"
          /\ out.val.in.index = 0
          /\ out.val.in.row = CLS

\* C4: no model object exists whose embed_dim is not a multiple of num_heads.
C4_IndivisibleHeadsRejected ==
    model.ok => model.cfg.embed_dim % model.cfg.num_heads = 0

\* C5: no model object exists whose img_size is not a multiple of patch_size.
C5_NonDivisibleImageRejected ==
    model.ok => model.cfg.img_size % model.cfg.patch_size = 0

\* C6: PatchEmbedding.forward returns a token sequence only for inputs whose height
\* and width are multiples of patch_size.
C6_NonMultipleRejected ==
    fpc = "cat" => (InH % PatchSize = 0 /\ InW % PatchSize = 0)

Mismatch ==
    \/ InC # model.cfg.in_channels
    \/ InH # model.cfg.img_size
    \/ InW # model.cfg.img_size

\* C7: a forward call on an input that does not match the configuration fails, and
\* fails before any operation of the call has run.
C7_MismatchFailsFast ==
    (model.ok /\ inp # NoInput /\ Mismatch /\ fpc # "patch_embedding") =>
        (fpc = "error" /\ trace = <<>>)

\* an earlier call, kept by the caller, had the input and parameters of the call
\* that has just returned
SameCall ==
    /\ fpc = "returned"
    /\ outputs.inp.id # 0
    /\ outputs.inp = inp
    /\ outputs.params = params

\* C8 as stated: two calls with identical parameters and input return identical
\* outputs, whatever the mode.
C8_Deterministic ==
    SameCall => outputs.out = out

\* C8 as amended: two calls with identical parameters and input, both in eval mode
\* (or on a model without encoder layers, which has no Dropout), return identical
\* outputs.
C8_DeterministicInEval ==
    (SameCall /\ ((~training /\ ~outputs.training) \/ model.cfg.num_layers = 0)) =>
        outputs.out = out

\* two eval-mode calls of a trained model with an encoder layer
C8_Witness ==
    /\ SameCall
    /\ ~training
    /\ ~outputs.training
    /\ model.cfg.num_layers >= 1
    /\ layer >= 1
    /\ params >= 1

StepsDue == (epoch - 1) * NumBatches + batch

\* C9: the parameters change only in optimizer.step(), which runs when this
\* iteration's forward call has returned and its backward pass has run, and every
\* forward call starts after the steps of all earlier iterations; no step of a
\* forward call in flight changes the parameters.
C9_StepBetweenPasses ==
    [][ /\ (params' # params) =>
              /\ pc = "step"
              /\ grads = "ready"
              /\ fpc = "idle"
              /\ outputs.params = params
              /\ outputs.inp.id # 0
              /\ fpc' = "idle"
        /\ Running => params' = params
        /\ (fpc' = "patch_embedding" /\ fpc # "patch_embedding") => params = StepsDue
      ]_vars

\* a forward call in flight inside an encoder layer, after two optimizer steps
C9_Witness ==
    /\ pc = "forward"
    /\ fpc = "norm1"
    /\ params >= 2

\* the value under a Dropout of the current mode, and that it is that Dropout
Under(v) == IF training THEN v.in ELSE v
IsDropout(v, name) == training => (v.op = "dropout" /\ v.name = name)

LastOps(k) == [i \in 1..k |-> trace[Len(trace) - k + i].op]

\* C10: a block computes x1 = norm1(x + dropout1(self_attn(x))) and then
\* norm2(x1 + dropout2(linear2(dropout(gelu(linear1(x1)))))), its operations running
\* in that order.
C10_PostNorm ==
    (layer >= 1 /\ fpc \in {"self_attn", "cls_token_out"}) =>
        LET n2 == x.val
            s2 == n2.in
            x1 == s2.a
            l2 == Under(s2.b)
            g  == Under(l2.in)
            l1 == g.in
            s1 == x1.in
            o  == Under(s1.b)
            a  == o.in
        IN /\ LastOps(6) = <<"self_attn", "residual1", "norm1",
                             "feed_forward", "residual2", "norm2">>
           /\ n2.op = "layer_norm" /\ n2.param.name = "norm2" /\ n2.param.layer = layer
           /\ s2.op = "add"
           /\ IsDropout(s2.b, "dropout2")
           /\ l2.op = "linear" /\ l2.param.name = "linear2"
           /\ IsDropout(l2.in, "dropout")
           /\ g.op = "gelu"
           /\ l1.op = "linear" /\ l1.param.name = "linear1"
           /\ l1.in = x1
           /\ x1.op = "layer_norm" /\ x1.param.name = "norm1" /\ x1.param.layer = layer
           /\ s1.op = "add"
           /\ IsDropout(s1.b, "dropout1")
           /\ o.op = "linear" /\ o.param.name = "out"
           /\ a.op = "attention"
           /\ a.Q.in = s1.a

\* a block that has run in training mode, and one that has run in eval mode
C10_Witness ==
    /\ layer >= 1
    /\ fpc = "cls_token_out"
    /\ training
    /\ outputs.inp.id # 0
    /\ ~outputs.training

====
